---- MODULE Spec2Model ----
\* A model of transport/grpc.go: the gRPC transport adapter of yab.
\*
\* Conventions.  A Go error value is a sequence of messages, a message a
\* sequence of pieces of text: the nil error is << >>, errors.New(m) is
\* << << m >> >>, and a multierr aggregate is the sequence of the messages it
\* holds.  A Go pointer is a sequence of length at most one:
\* nil is << >>, &v is << v >>.  Each operation of the adapter is a pure
\* operator from its arguments and the outcomes of the collaborator calls it
\* makes (the yarpc engine, the file system, the response body) to its results
\* and the ordered list of collaborator calls it made; the actions apply those
\* operators to the state.
EXTENDS Integers, Sequences, FiniteSets, TLC

\* ---------------------------------------------------------------- bounds

MaxAddrs == 2
MaxCalls == 4

\* ---------------------------------------------------------------- values

NilErr == << >>
NilPtr == << >>

\* errors.New(text).
New(text) == << << text >> >>

\* fmt.Errorf(prefix + " %v", err): one message, the prefix followed by the
\* message of err.
Errorf(prefix, err) == << << prefix >> \o err[1] >>

errGRPCNoAddresses == New("must specify at least one grpc address")
errGRPCNoTracer == New("must specify grpc tracer")
errGRPCNoCaller == New("must specify grpc caller")
errGRPCNoService == New("must specify grpc service")
errGRPCNoProcedure == New("must specify grpc procedure")

\* time.Second, in milliseconds.
Second == 1000

\* Errors the collaborators may produce.
errReadFile == New("open ca: no such file")
errKeyPair == New("tls: failed to find any PEM data")
errTransportStart == New("transport start failed")
errOutboundStart == New("outbound start failed")
errTransportStop == New("transport stop failed")
errOutboundStop == New("outbound stop failed")
errOutboundCall == New("rpc failed")
errStreamCall == New("stream open failed")
errBodyRead == New("body read failed")
errBodyClose == New("body close failed")

errCouldNotLoadCA(err) == Errorf("could not load ca", err)
errFailedAppendCA == New("failed to append ca")
errFailedKeyPair(err) == Errorf("failed to load X509 keypair", err)

Addrs == {"a:1", "b:2", "c:3"}

RECURSIVE SeqsUpTo(_, _)
SeqsUpTo(S, n) ==
    IF n = 0 THEN {<< >>}
    ELSE LET shorter == SeqsUpTo(S, n - 1)
         IN shorter \cup {Append(s, x) : s \in {t \in shorter : Len(t) = n - 1}, x \in S}

\* GRPCOptions.  Tracer is TRUE for a non-nil tracer.
GRPCOptions ==
    [Addresses : SeqsUpTo(Addrs, MaxAddrs),
     Tracer : BOOLEAN,
     Caller : {"", "yab"},
     Encoding : {"proto"},
     RoutingKey : {"rk"},
     RoutingDelegate : {"rd"},
     MaxResponseSize : {0, 4096},
     CAPath : {"", "ca.pem"},
     CertPath : {"", "cert.pem"},
     PrivateKeyPath : {"", "key.pem"}]

\* The options under which calls are explored: complete ones, so that
\* construction can succeed, over every address list.
CallOptions ==
    {o \in GRPCOptions :
        /\ o.Tracer /\ o.Caller # "" /\ o.MaxResponseSize = 0
        /\ o.CAPath = "" /\ o.CertPath = "" /\ o.PrivateKeyPath = ""}

\* ------------------------------------------------- the engine's lifecycle

\* A yarpc lifecycle (transport or outbound) is idle until started.  Start
\* and Stop run once; one that returns an error leaves the lifecycle errored,
\* which is not running.
AfterStart(err) == IF err = NilErr THEN "running" ELSE "errored"
AfterStop(err) == IF err = NilErr THEN "stopped" ELSE "errored"

\* ------------------------------------------------------ peersToIdentifiers

\* hostport.Identify: the address as a hostport.PeerIdentifier.
Identify(peer) == [hostport |-> peer]

\* peersToIdentifiers with a loop that stops one short.
peersToIdentifiersDropLast(peers) ==
    [i \in 1..(IF Len(peers) > 1 THEN Len(peers) - 1 ELSE Len(peers)) |-> Identify(peers[i])]

peersToIdentifiers(peers) == [i \in 1..Len(peers) |-> Identify(peers[i])]

\* ------------------------------------------------------------------ newGRPC

\* The outcomes of the collaborator calls newGRPC may make.
NewEnv ==
    [readFile : {NilErr, errReadFile},
     appendCerts : BOOLEAN,
     keyPair : {NilErr, errKeyPair},
     transportStart : {NilErr, errTransportStart},
     outboundStart : {NilErr, errOutboundStart},
     transportStop : {NilErr, errTransportStop}]

\* What newGRPC leaves behind: the returned pointer and error, the calls made
\* in order, the options the transport was constructed with, the lifecycle
\* states of the transport and the outbound it constructed ("none" when it
\* constructed none), the peer transport handed to the chooser and the peers
\* bound to it.
NewResult(t, err, calls, topts, tState, oState, peerTransport, peers) ==
    [t |-> t, err |-> err, calls |-> calls, transportOptions |-> topts,
     tState |-> tState, oState |-> oState,
     peerTransport |-> peerTransport, peers |-> peers]

\* What newGRPC returns when it fails before it constructs anything.
NothingBuilt(err) == NewResult(NilPtr, err, << >>, << >>, "none", "none", "none", << >>)

\* The grpcTransport built at the end of a successful newGRPC.
grpcTransport(options) ==
    [Caller |-> options.Caller,
     Encoding |-> options.Encoding,
     RoutingKey |-> options.RoutingKey,
     RoutingDelegate |-> options.RoutingDelegate,
     tracer |-> options.Tracer]

\* The transport options handed to grpc.NewTransport.
transportOptions(options) ==
    << "Tracer" >> \o (IF options.MaxResponseSize > 0
                       THEN << "ClientMaxRecvMsgSize" >> ELSE << >>)

\* requiredFields with the caller checked before the tracer.
requiredFieldsCallerFirst(options) ==
    IF Len(options.Addresses) = 0 THEN errGRPCNoAddresses
    ELSE IF options.Caller = "" THEN errGRPCNoCaller
    ELSE IF ~options.Tracer THEN errGRPCNoTracer
    ELSE NilErr

\* The three checks newGRPC opens with: the error of the first that fails.
requiredFields(options) ==
    IF Len(options.Addresses) = 0 THEN errGRPCNoAddresses
    ELSE IF ~options.Tracer THEN errGRPCNoTracer
    ELSE IF options.Caller = "" THEN errGRPCNoCaller
    ELSE NilErr

\* useTLS with any one path enough.
useTLSAny(options) ==
    options.CAPath # "" \/ options.CertPath # "" \/ options.PrivateKeyPath # ""

\* The condition under which the TLS material is loaded.
useTLS(options) ==
    options.CAPath # "" /\ options.CertPath # "" /\ options.PrivateKeyPath # ""

\* startAll without the Stop of the transport when the outbound does not start.
startAllNoStop(options, env, calls, peerTransport) ==
    LET peers == peersToIdentifiers(options.Addresses)
        topts == transportOptions(options)
        c1 == calls \o << "NewOutbound", "transport.Start" >>
    IN IF env.transportStart # NilErr
       THEN NewResult(NilPtr, env.transportStart, c1, topts,
                      AfterStart(env.transportStart), "idle", peerTransport, peers)
       ELSE IF env.outboundStart # NilErr
       THEN NewResult(NilPtr, env.outboundStart, c1 \o << "outbound.Start" >>, topts,
                      "running", AfterStart(env.outboundStart), peerTransport, peers)
       ELSE NewResult(<< grpcTransport(options) >>, NilErr,
                      c1 \o << "outbound.Start" >>, topts,
                      "running", "running", peerTransport, peers)

\* From NewOutbound on: bind the peers, start the transport, start the
\* outbound, and stop the transport again when the outbound does not start.
startAll(options, env, calls, peerTransport) ==
    LET peers == peersToIdentifiers(options.Addresses)
        topts == transportOptions(options)
        c1 == calls \o << "NewOutbound", "transport.Start" >>
    IN IF env.transportStart # NilErr
       THEN NewResult(NilPtr, env.transportStart, c1, topts,
                      AfterStart(env.transportStart), "idle", peerTransport, peers)
       ELSE IF env.outboundStart # NilErr
       THEN NewResult(NilPtr, env.outboundStart,
                      c1 \o << "outbound.Start", "transport.Stop" >>, topts,
                      AfterStop(env.transportStop), AfterStart(env.outboundStart),
                      peerTransport, peers)
       ELSE NewResult(<< grpcTransport(options) >>, NilErr,
                      c1 \o << "outbound.Start" >>, topts,
                      "running", "running", peerTransport, peers)

\* A failure while the TLS material is loaded: the transport is constructed
\* and idle, and nothing else is.
tlsFailure(options, err, calls) ==
    NewResult(NilPtr, err, calls, transportOptions(options), "idle", "none", "none", << >>)

newGRPC(options, env) ==
    IF requiredFields(options) # NilErr
    THEN NothingBuilt(requiredFields(options))
    ELSE LET c0 == << "NewTransport" >>
         IN IF useTLS(options)
            THEN IF env.readFile # NilErr
                 THEN tlsFailure(options, errCouldNotLoadCA(env.readFile),
                                 c0 \o << "ReadFile" >>)
                 ELSE IF ~env.appendCerts
                 THEN tlsFailure(options, errFailedAppendCA,
                                 c0 \o << "ReadFile", "AppendCertsFromPEM" >>)
                 ELSE IF env.keyPair # NilErr
                 THEN tlsFailure(options, errFailedKeyPair(env.keyPair),
                                 c0 \o << "ReadFile", "AppendCertsFromPEM",
                                          "LoadX509KeyPair" >>)
                 ELSE startAll(options, env,
                               c0 \o << "ReadFile", "AppendCertsFromPEM",
                                        "LoadX509KeyPair", "NewDialer" >>,
                               "tlsDialer")
            ELSE startAll(options, env, c0, "transport")

\* --------------------------------------------------------- requests, calls

\* transport.HeadersFromMap: yarpc keeps header keys in canonical (lower
\* case) form.
CanonicalizeHeaderKey(k) == IF k = "X-Trace" THEN "x-trace" ELSE k

HeadersFromMap(m) ==
    [k \in {CanonicalizeHeaderKey(j) : j \in DOMAIN m} |->
        m[CHOOSE j \in DOMAIN m : CanonicalizeHeaderKey(j) = k]]

\* Request.  Timeout is in milliseconds.
Requests ==
    [TargetService : {"", "svc"},
     Method : {"", "echo"},
     Headers : {[k \in {"X-Trace"} |-> "1"]},
     ShardKey : {"shard"},
     Timeout : {-5, 0, 250},
     Body : {<< 1 >>}]

\* *StreamRequest: nil, or one whose Request is nil, or one with a Request.
StreamRequests ==
    {NilPtr, << [Request |-> NilPtr] >>}
        \cup {<< [Request |-> << r >>] >> : r \in {q \in Requests : q.Timeout = 0}}

\* context.Context, as far as the adapter reads it: whether it has a deadline
\* and which.  Times are in milliseconds.
Contexts == {[hasDeadline |-> FALSE, deadline |-> 0], [hasDeadline |-> TRUE, deadline |-> 900]}

Nows == {100}

\* A response body stream: the bytes it yields, and whether reading it to the
\* end and closing it fail.
Bodies == [data : {<< 7, 8 >>}, readErr : {NilErr, errBodyRead}, closeErr : {NilErr, errBodyClose}]

\* *transport.Response as the outbound returns it.
WireResponses ==
    [Headers : {[k \in {"x-reply"} |-> "ok"]},
     Body : {NilPtr} \cup {<< b >> : b \in Bodies}]

\* The outcomes of Outbound.Call: an error and no response, or a response.
CallOutcomes ==
    {[err |-> errOutboundCall, resp |-> NilPtr]}
        \cup {[err |-> NilErr, resp |-> << w >>] : w \in WireResponses}

\* The outcomes of StreamOutbound.CallStream: the stream handle and the error.
StreamOutcomes ==
    {[stream |-> NilPtr, err |-> errStreamCall], [stream |-> << "stream" >>, err |-> NilErr]}

\* requestContextWithTimeout without the test for an existing deadline.
requestContextWithTimeoutOverride(ctx, request, now) ==
    LET timeout == IF request.Timeout > 0 THEN request.Timeout ELSE Second
    IN [ctx |-> [hasDeadline |-> TRUE, deadline |-> now + timeout], cancel |-> "timer"]

\* The context the outbound is called with and the kind of cancel function
\* returned with it: a no-op for a context that already has a deadline, the
\* timer's cancel for one derived with context.WithTimeout.
requestContextWithTimeout(ctx, request, now) ==
    IF ctx.hasDeadline
    THEN [ctx |-> ctx, cancel |-> "noop"]
    ELSE LET timeout == IF request.Timeout > 0 THEN request.Timeout ELSE Second
         IN [ctx |-> [hasDeadline |-> TRUE, deadline |-> now + timeout],
             cancel |-> "timer"]

requestToYARPCRequest(t, request) ==
    [Caller |-> t.Caller,
     Service |-> request.TargetService,
     Encoding |-> t.Encoding,
     Procedure |-> request.Method,
     Headers |-> HeadersFromMap(request.Headers),
     ShardKey |-> request.ShardKey,
     RoutingKey |-> t.RoutingKey,
     RoutingDelegate |-> t.RoutingDelegate,
     Body |-> request.Body]

\* t is the receiver pointer.
requestToYARPCStreamRequest(t, streamRequest) ==
    IF t = NilPtr \/ streamRequest = NilPtr \/ streamRequest[1].Request = NilPtr
    THEN NilPtr
    ELSE << [Meta |->
              [Caller |-> t[1].Caller,
               Service |-> streamRequest[1].Request[1].TargetService,
               Encoding |-> t[1].Encoding,
               Procedure |-> streamRequest[1].Request[1].Method,
               Headers |-> HeadersFromMap(streamRequest[1].Request[1].Headers),
               ShardKey |-> streamRequest[1].Request[1].ShardKey,
               RoutingKey |-> t[1].RoutingKey,
               RoutingDelegate |-> t[1].RoutingDelegate]] >>

\* Returns the response pointer, the error and the calls made on the body.
yarpcResponseToResponse(transportResponse) ==
    IF transportResponse.Body # NilPtr
    THEN LET b == transportResponse.Body[1]
         IN IF b.readErr # NilErr
            THEN [resp |-> NilPtr, err |-> b.readErr, calls |-> << "Body.ReadAll" >>]
            ELSE IF b.closeErr # NilErr
            THEN [resp |-> NilPtr, err |-> b.closeErr,
                  calls |-> << "Body.ReadAll", "Body.Close" >>]
            ELSE [resp |-> << [Headers |-> transportResponse.Headers, Body |-> b.data] >>,
                  err |-> NilErr, calls |-> << "Body.ReadAll", "Body.Close" >>]
    ELSE [resp |-> << [Headers |-> transportResponse.Headers, Body |-> << >>] >>,
          err |-> NilErr, calls |-> << >>]

\* What Call returns and did: sent is the request handed to the outbound (a
\* pointer, nil when none was), ctx the context handed to it, cancel the kind
\* of cancel function it was given, calls the collaborator calls in order.
CallResult(resp, err, calls, sent, ctx, cancel) ==
    [resp |-> resp, err |-> err, calls |-> calls, sent |-> sent, ctx |-> ctx,
     cancel |-> cancel]

\* checkRequest with the method checked before the service.
checkRequestMethodFirst(request) ==
    IF request.Method = "" THEN errGRPCNoProcedure
    ELSE IF request.TargetService = "" THEN errGRPCNoService
    ELSE NilErr

\* The two checks Call opens with: the error of the first that fails.
checkRequest(request) ==
    IF request.TargetService = "" THEN errGRPCNoService
    ELSE IF request.Method = "" THEN errGRPCNoProcedure
    ELSE NilErr

\* callOutbound with a second attempt after a failed one.
callOutboundRetry(t, ctx, request, now, outcome) ==
    LET c == requestContextWithTimeout(ctx, request, now)
        y == requestToYARPCRequest(t, request)
    IN IF outcome.err # NilErr
       THEN CallResult(NilPtr, outcome.err,
                       << "Outbound.Call", "Outbound.Call", "cancel" >>,
                       << y >>, << c.ctx >>, c.cancel)
       ELSE LET r == yarpcResponseToResponse(outcome.resp[1])
            IN CallResult(r.resp, r.err,
                          << "Outbound.Call" >> \o r.calls \o << "cancel" >>,
                          << y >>, << c.ctx >>, c.cancel)

\* Call once the request is checked: derive the context, call the outbound
\* once, translate the response; the deferred cancel runs last.
callOutbound(t, ctx, request, now, outcome) ==
    LET c == requestContextWithTimeout(ctx, request, now)
        y == requestToYARPCRequest(t, request)
    IN IF outcome.err # NilErr
       THEN CallResult(NilPtr, outcome.err, << "Outbound.Call", "cancel" >>,
                       << y >>, << c.ctx >>, c.cancel)
       ELSE LET r == yarpcResponseToResponse(outcome.resp[1])
            IN CallResult(r.resp, r.err,
                          << "Outbound.Call" >> \o r.calls \o << "cancel" >>,
                          << y >>, << c.ctx >>, c.cancel)

\* grpcTransport.Call.
Call(t, ctx, request, now, outcome) ==
    IF checkRequest(request) # NilErr
    THEN CallResult(NilPtr, checkRequest(request), << >>, NilPtr, NilPtr, "none")
    ELSE callOutbound(t, ctx, request, now, outcome)

\* The outcomes of the outbound worth telling apart for a request: one when
\* Call never reaches the outbound, since none is then read.
OutcomesFor(t, ctx, request, now) ==
    LET any == [err |-> errOutboundCall, resp |-> NilPtr]
    IN IF Call(t, ctx, request, now, any).sent = NilPtr THEN {any} ELSE CallOutcomes

\* CallStream with the checks Call makes.
CallStreamValidating(t, streamRequest, outcome) ==
    IF streamRequest # NilPtr /\ streamRequest[1].Request # NilPtr
       /\ checkRequest(streamRequest[1].Request[1]) # NilErr
    THEN [stream |-> NilPtr, err |-> checkRequest(streamRequest[1].Request[1]),
          calls |-> << >>, sent |-> NilPtr]
    ELSE [stream |-> outcome.stream, err |-> outcome.err,
          calls |-> << "StreamOutbound.CallStream" >>,
          sent |-> requestToYARPCStreamRequest(<< t >>, streamRequest)]

\* grpcTransport.CallStream.
CallStream(t, streamRequest, outcome) ==
    [stream |-> outcome.stream, err |-> outcome.err,
     calls |-> << "StreamOutbound.CallStream" >>,
     sent |-> requestToYARPCStreamRequest(<< t >>, streamRequest)]

\* multierr.Combine: nil when every error is nil, the error itself when one
\* is not, and otherwise the aggregate of the non-nil errors in order.
RECURSIVE Combine(_)
Combine(errs) == IF errs = << >> THEN NilErr ELSE Head(errs) \o Combine(Tail(errs))

\* Close returning at the first Stop that fails.
CloseStopOnFirstError(transportStop, outboundStop) ==
    IF transportStop # NilErr
    THEN [err |-> transportStop, calls |-> << "transport.Stop" >>,
          tState |-> AfterStop(transportStop), oState |-> "running"]
    ELSE [err |-> outboundStop, calls |-> << "transport.Stop", "outbound.Stop" >>,
          tState |-> AfterStop(transportStop), oState |-> AfterStop(outboundStop)]

\* grpcTransport.Close: both arguments of Combine are evaluated, in order,
\* before it is called.
Close(transportStop, outboundStop) ==
    [err |-> Combine(<< transportStop, outboundStop >>),
     calls |-> << "transport.Stop", "outbound.Stop" >>,
     tState |-> AfterStop(transportStop),
     oState |-> AfterStop(outboundStop)]

\* --------------------------------------------------------------- the chooser

\* roundrobin.New bound to the peers: each dispatch takes the peer after the
\* one the last dispatch took, wrapping around.
ChooseIndex(cursor) == cursor + 1
AdvanceCursor(cursor, n) == (cursor + 1) % n

\* ------------------------------------------------------------------- state

\* options     the GRPCOptions handed to NewGRPC
\* phase       "new", then "ready" or "failed", then "closed"
\* res         what newGRPC returned and left behind
\* tState      lifecycle of the grpc transport; oState of the outbound
\* cursor      the chooser's position; selected[i] counts dispatches to peer i
\* nDispatched operations that reached a peer; allOk whether every one of
\*             those succeeded
\* last        the last operation: its arguments and what it returned
VARIABLES options, phase, res, tState, oState, cursor, selected, nDispatched, allOk, last

vars == << options, phase, res, tState, oState, cursor, selected, nDispatched, allOk, last >>

NoOp == [op |-> "none"]

Start(opts) ==
    /\ options \in opts
    /\ phase = "new"
    /\ res = NothingBuilt(NilErr)
    /\ tState = "none"
    /\ oState = "none"
    /\ cursor = 0
    /\ selected = << >>
    /\ nDispatched = 0
    /\ allOk = TRUE
    /\ last = NoOp

NewGRPC ==
    /\ phase = "new"
    /\ \E env \in NewEnv :
         LET r == newGRPC(options, env)
         IN /\ res' = r
            /\ phase' = IF r.err = NilErr THEN "ready" ELSE "failed"
            /\ tState' = r.tState
            /\ oState' = r.oState
            /\ selected' = [i \in 1..Len(r.peers) |-> 0]
            /\ last' = [op |-> "NewGRPC"]
    /\ UNCHANGED << options, cursor, nDispatched, allOk >>

\* One dispatch through the chooser.
Dispatch(ok) ==
    /\ selected' = [selected EXCEPT ![ChooseIndex(cursor)] = @ + 1]
    /\ cursor' = AdvanceCursor(cursor, Len(res.peers))
    /\ nDispatched' = nDispatched + 1
    /\ allOk' = (allOk /\ ok)

DoCall ==
    /\ phase = "ready"
    /\ nDispatched < MaxCalls
    /\ \E ctx \in Contexts, request \in Requests, now \in Nows :
       \E outcome \in OutcomesFor(res.t[1], ctx, request, now) :
         LET r == Call(res.t[1], ctx, request, now, outcome)
         IN /\ last' = [op |-> "Call", ctx |-> ctx, request |-> request, now |-> now,
                        outcome |-> IF r.sent = NilPtr THEN NilPtr ELSE << outcome >>,
                        ret |-> r]
            /\ IF r.sent # NilPtr
               THEN Dispatch(r.err = NilErr)
               ELSE UNCHANGED << selected, cursor, nDispatched, allOk >>
    /\ UNCHANGED << options, phase, res, tState, oState >>

DoCallStream ==
    /\ phase = "ready"
    /\ nDispatched < MaxCalls
    /\ \E streamRequest \in StreamRequests, outcome \in StreamOutcomes :
         LET r == CallStream(res.t[1], streamRequest, outcome)
         IN /\ last' = [op |-> "CallStream", streamRequest |-> streamRequest,
                        outcome |-> outcome, ret |-> r]
            /\ IF r.sent # NilPtr
               THEN Dispatch(r.err = NilErr)
               ELSE UNCHANGED << selected, cursor, nDispatched, allOk >>
    /\ UNCHANGED << options, phase, res, tState, oState >>

DoClose ==
    /\ phase = "ready"
    /\ \E transportStop \in {NilErr, errTransportStop}, outboundStop \in {NilErr, errOutboundStop} :
         LET r == Close(transportStop, outboundStop)
         IN /\ last' = [op |-> "Close", transportStop |-> transportStop,
                        outboundStop |-> outboundStop, ret |-> r]
            /\ tState' = r.tState
            /\ oState' = r.oState
    /\ phase' = "closed"
    /\ UNCHANGED << options, res, cursor, selected, nDispatched, allOk >>

\* Construction and shutdown, over every GRPCOptions value.
Init == Start(GRPCOptions)

Next == NewGRPC \/ DoClose

Spec == Init /\ [][Next]_vars

\* The whole life of a transport, calls included, over the complete options.
InitCalls == Start(CallOptions)

NextCalls == NewGRPC \/ DoCall \/ DoCallStream \/ DoClose

SpecCalls == InitCalls /\ [][NextCalls]_vars

\* ------------------------------------------------------------------ claims

Range(q) == {q[i] : i \in DOMAIN q}
Count(q, x) == Cardinality({i \in DOMAIN q : q[i] = x})
\* x occurs in q, and every y in q comes after every x.
Precedes(q, x, y) ==
    \A i, j \in DOMAIN q : (q[i] = x /\ q[j] = y) => i < j
Distinct(q) == \A i, j \in DOMAIN q : q[i] = q[j] => i = j

Constructed == phase # "new"
TLSErrors == {errCouldNotLoadCA(errReadFile), errFailedAppendCA, errFailedKeyPair(errKeyPair)}
RequiredFieldErrors == {errGRPCNoAddresses, errGRPCNoTracer, errGRPCNoCaller}

\* C1: when newGRPC returns an error it returns no transport object and leaves
\* neither the transport nor the outbound running, on every failure path; when
\* the transport's Start fails the outbound's Start is not attempted; when the
\* outbound's Start fails the transport is stopped once, after it, and the
\* error returned is the outbound's whatever that Stop returned.
C1_FailedConstructionLeavesNothingStarted ==
    (Constructed /\ res.err # NilErr) =>
        /\ res.t = NilPtr
        /\ tState # "running"
        /\ oState # "running"
        /\ res.err \in RequiredFieldErrors \cup TLSErrors
               \cup {errTransportStart, errOutboundStart}
        /\ res.err \in RequiredFieldErrors \cup TLSErrors =>
               /\ "transport.Start" \notin Range(res.calls)
               /\ "outbound.Start" \notin Range(res.calls)
        /\ res.err = errTransportStart =>
               /\ "outbound.Start" \notin Range(res.calls)
               /\ "transport.Stop" \notin Range(res.calls)
        /\ "outbound.Start" \in Range(res.calls) =>
               /\ res.err = errOutboundStart
               /\ Count(res.calls, "transport.Stop") = 1
               /\ Precedes(res.calls, "outbound.Start", "transport.Stop")

\* The outbound's Start failed, and so did the Stop of the transport that
\* followed: the outbound's error is what newGRPC returned.
C1_Witness ==
    /\ phase = "failed"
    /\ res.err = errOutboundStart
    /\ "transport.Stop" \in Range(res.calls)
    /\ tState = "errored"

\* C2: the required fields are checked in the order addresses, tracer, caller
\* and the first failing check decides the error: no addresses gives the
\* no-addresses error whatever the rest, addresses without a tracer give the
\* no-tracer error whatever the caller, and the no-caller error is returned
\* exactly when addresses and tracer are present and the caller is empty; the
\* three errors differ, and with any of them nothing was constructed or started.
C2_RequiredFieldsInOrder ==
    Constructed =>
        /\ Len(options.Addresses) = 0 => res.err = errGRPCNoAddresses
        /\ (Len(options.Addresses) > 0 /\ ~options.Tracer) => res.err = errGRPCNoTracer
        /\ res.err = errGRPCNoCaller <=>
               (Len(options.Addresses) > 0 /\ options.Tracer /\ options.Caller = "")
        /\ Cardinality(RequiredFieldErrors) = 3
        /\ res.err \in RequiredFieldErrors =>
               /\ res.calls = << >>
               /\ tState = "none" /\ oState = "none"
               /\ res.t = NilPtr

\* Tracer and caller are both missing: the tracer's error is the one returned.
C2_Witness ==
    /\ phase = "failed"
    /\ Len(options.Addresses) > 0 /\ ~options.Tracer /\ options.Caller = ""
    /\ res.err = errGRPCNoTracer

\* C3: Close stops the transport and the outbound, each exactly once, whatever
\* either Stop returns; it returns nil exactly when both succeed, the one
\* error when one fails, and both errors when both fail.
C3_CloseStopsBoth ==
    last.op = "Close" =>
        /\ Count(last.ret.calls, "transport.Stop") = 1
        /\ Count(last.ret.calls, "outbound.Stop") = 1
        /\ Len(last.ret.calls) = 2
        /\ last.ret.err = NilErr <=>
               (last.transportStop = NilErr /\ last.outboundStop = NilErr)
        /\ (last.transportStop # NilErr /\ last.outboundStop = NilErr) =>
               last.ret.err = last.transportStop
        /\ (last.transportStop = NilErr /\ last.outboundStop # NilErr) =>
               last.ret.err = last.outboundStop
        /\ (last.transportStop # NilErr /\ last.outboundStop # NilErr) =>
               /\ Len(last.ret.err) = 2
               /\ Range(last.transportStop) \subseteq Range(last.ret.err)
               /\ Range(last.outboundStop) \subseteq Range(last.ret.err)

\* Both stops failed.
C3_Witness ==
    /\ last.op = "Close"
    /\ last.transportStop # NilErr /\ last.outboundStop # NilErr
    /\ phase = "closed"

\* C4: a Call whose request has an empty TargetService or an empty Method
\* returns a validation error and a nil response without calling the
\* outbound; the missing-service error wins when both are empty, and the two
\* errors differ.
C4_CallValidatesFirst ==
    (last.op = "Call"
        /\ (last.request.TargetService = "" \/ last.request.Method = "")) =>
        /\ last.ret.resp = NilPtr
        /\ last.ret.err = IF last.request.TargetService = ""
                          THEN errGRPCNoService ELSE errGRPCNoProcedure
        /\ "Outbound.Call" \notin Range(last.ret.calls)
        /\ last.ret.sent = NilPtr
        /\ errGRPCNoService # errGRPCNoProcedure

\* Both fields are empty.
C4_Witness ==
    /\ last.op = "Call"
    /\ last.request.TargetService = "" /\ last.request.Method = ""
    /\ last.ret.err = errGRPCNoService

\* C5: the context a checked Call hands to the outbound is the caller's own,
\* unchanged and with no timer, when that has a deadline, whatever the
\* request's Timeout; otherwise its deadline is Timeout from now when
\* Timeout > 0 and one second from now when Timeout <= 0.
C5_EffectiveTimeout ==
    (last.op = "Call" /\ last.ret.sent # NilPtr) =>
        /\ last.ret.ctx # NilPtr
        /\ last.ctx.hasDeadline =>
               /\ last.ret.ctx[1] = last.ctx
               /\ last.ret.cancel = "noop"
        /\ (~last.ctx.hasDeadline /\ last.request.Timeout > 0) =>
               /\ last.ret.ctx[1].hasDeadline
               /\ last.ret.ctx[1].deadline - last.now = last.request.Timeout
        /\ (~last.ctx.hasDeadline /\ last.request.Timeout <= 0) =>
               /\ last.ret.ctx[1].hasDeadline
               /\ last.ret.ctx[1].deadline - last.now = Second

\* The caller's context has a deadline and the request a positive Timeout.
C5_Witness ==
    /\ last.op = "Call" /\ last.ret.sent # NilPtr
    /\ last.ctx.hasDeadline /\ last.request.Timeout > 0
    /\ last.ret.ctx[1].deadline # last.now + last.request.Timeout

\* C6: whenever the outbound's call succeeds and the response has a body, the
\* body is read and then closed before Call returns, the close never before
\* the read; a failing read and a failing close each make Call return that
\* error and a nil response.
C6_BodyReadThenClosed ==
    (last.op = "Call" /\ last.outcome # NilPtr /\ last.outcome[1].err = NilErr
        /\ last.outcome[1].resp[1].Body # NilPtr) =>
        LET b == last.outcome[1].resp[1].Body[1]
        IN /\ Count(last.ret.calls, "Body.ReadAll") = 1
           /\ Count(last.ret.calls, "Body.Close") = 1
           /\ Precedes(last.ret.calls, "Body.ReadAll", "Body.Close")
           /\ b.readErr # NilErr => (last.ret.err = b.readErr /\ last.ret.resp = NilPtr)
           /\ (b.readErr = NilErr /\ b.closeErr # NilErr) =>
                  (last.ret.err = b.closeErr /\ last.ret.resp = NilPtr)
           /\ last.ret.err # NilErr => last.ret.resp = NilPtr

\* C7: a Call that passes validation calls the outbound exactly once; when
\* that call fails Call returns its error unchanged and a nil response; and
\* the cancel function of the derived context runs, once and last, on every
\* return path.
C7_OneAttemptNoRetry ==
    (last.op = "Call" /\ checkRequest(last.request) = NilErr) =>
        /\ Count(last.ret.calls, "Outbound.Call") = 1
        /\ last.ret.calls[1] = "Outbound.Call"
        /\ Count(last.ret.calls, "cancel") = 1
        /\ last.ret.calls[Len(last.ret.calls)] = "cancel"
        /\ last.ret.cancel \in {"noop", "timer"}
        /\ last.outcome # NilPtr
        /\ last.outcome[1].err # NilErr =>
               /\ last.ret.err = last.outcome[1].err
               /\ last.ret.resp = NilPtr

\* The one attempt failed.
C7_Witness ==
    /\ last.op = "Call"
    /\ last.outcome # NilPtr
    /\ last.outcome[1].err = errOutboundCall
    /\ last.ret.err = errOutboundCall

\* C8: the peers bound at construction are the identifiers of the input
\* addresses, one each, in input order, duplicates kept, and stay so; and over
\* N distinct addresses, after M dispatches that all succeeded with M a
\* multiple of N, each peer was selected M/N times.
C8_RoundRobinOverBoundPeers ==
    (Constructed /\ res.err = NilErr) =>
        /\ Len(res.peers) = Len(options.Addresses)
        /\ \A i \in 1..Len(options.Addresses) :
               res.peers[i] = Identify(options.Addresses[i])
        /\ DOMAIN selected = 1..Len(options.Addresses)
        /\ (Distinct(options.Addresses) /\ allOk
               /\ nDispatched % Len(options.Addresses) = 0) =>
               \A i \in 1..Len(options.Addresses) :
                   selected[i] = nDispatched \div Len(options.Addresses)

\* Two distinct peers, four successful dispatches, two each.
C8_Witness ==
    /\ phase = "ready"
    /\ Len(options.Addresses) = 2 /\ Distinct(options.Addresses)
    /\ allOk /\ nDispatched = 4
    /\ \A i \in 1..2 : selected[i] = 2

\* C9: CallStream validates nothing: for every stream request it calls the
\* stream outbound exactly once and returns its stream and error unchanged;
\* the request it hands over is nil when the StreamRequest or its Request is
\* nil, and otherwise carries service, method, headers and shard key of the
\* request and caller, encoding, routing key and routing delegate of the
\* transport.
C9_CallStreamDelegates ==
    last.op = "CallStream" =>
        /\ last.ret.calls = << "StreamOutbound.CallStream" >>
        /\ last.ret.stream = last.outcome.stream
        /\ last.ret.err = last.outcome.err
        /\ (last.streamRequest = NilPtr \/ last.streamRequest[1].Request = NilPtr) <=>
               last.ret.sent = NilPtr
        /\ last.ret.sent # NilPtr =>
               LET m == last.ret.sent[1].Meta
                   r == last.streamRequest[1].Request[1]
               IN /\ m.Service = r.TargetService
                  /\ m.Procedure = r.Method
                  /\ m.ShardKey = r.ShardKey
                  /\ \A k \in DOMAIN r.Headers :
                         m.Headers[CanonicalizeHeaderKey(k)] = r.Headers[k]
                  /\ m.Caller = options.Caller
                  /\ m.Encoding = options.Encoding
                  /\ m.RoutingKey = options.RoutingKey
                  /\ m.RoutingDelegate = options.RoutingDelegate

\* A stream request with an empty service and an empty method is handed on.
C9_Witness ==
    /\ last.op = "CallStream"
    /\ last.streamRequest # NilPtr
    /\ last.streamRequest[1].Request # NilPtr
    /\ last.streamRequest[1].Request[1].TargetService = ""
    /\ last.streamRequest[1].Request[1].Method = ""
    /\ last.ret.sent # NilPtr
    /\ last.ret.stream # NilPtr

ClearTLS(o) == [o EXCEPT !.CAPath = "", !.CertPath = "", !.PrivateKeyPath = ""]
TLSCalls == {"ReadFile", "AppendCertsFromPEM", "LoadX509KeyPair", "NewDialer"}
AllThree(o) == o.CAPath # "" /\ o.CertPath # "" /\ o.PrivateKeyPath # ""

\* C10: a channel that is built has the TLS dialer as its peer transport
\* exactly when CAPath, CertPath and PrivateKeyPath are all non-empty; with
\* fewer than three of them set the constructor reads no TLS material, returns
\* no TLS error, and does what it does with none of them set.
C10_SecureModeNeedsAllThree ==
    (Constructed /\ requiredFields(options) = NilErr) =>
        /\ res.peerTransport # "none" =>
               (res.peerTransport = "tlsDialer" <=> AllThree(options))
        /\ phase = "ready" =>
               res.peerTransport = IF AllThree(options) THEN "tlsDialer" ELSE "transport"
        /\ ~AllThree(options) =>
               /\ Range(res.calls) \cap TLSCalls = {}
               /\ res.err \notin TLSErrors
               /\ \A env \in NewEnv :
                      res = newGRPC(options, env) => res = newGRPC(ClearTLS(options), env)

\* Only the CA path is set, and the channel is the unsecured one.
C10_Witness ==
    /\ phase = "ready"
    /\ options.CAPath # "" /\ options.CertPath = "" /\ options.PrivateKeyPath = ""
    /\ res.peerTransport = "transport"
====
